---- MODULE Spec2Model ----
(***************************************************************************)
(* Model of the two Anchor programs of the repository:                     *)
(*   contracts/solana/governance/src/lib.rs  (initialize, create_proposal, *)
(*                                            vote)                        *)
(*   contracts/solana/membership/src/lib.rs  (initialize, add_member)      *)
(*                                                                         *)
(* The ledger is one address space of accounts.  Every instruction is one  *)
(* atomic transaction: the account constraints of its #[derive(Accounts)]  *)
(* struct are validated in declaration order, then the handler body runs;  *)
(* any error rolls the whole transaction back.                             *)
(*                                                                         *)
(* Neither program derives, compares or stores an account address, so the  *)
(* ledger is kept up to renaming of addresses: an account is named by its  *)
(* type and its rank among the accounts of that type, in creation order,   *)
(* and every address not in use is the one address Unused.                 *)
(***************************************************************************)
EXTENDS Integers, FiniteSets, Sequences, TLC

\* ---------------------------------------------------------------- bounds
NumAddr == 4              \* accounts the ledger may hold
NumKeys == 2              \* signing identities

Keys == 1..NumKeys        \* voter, proposer, authority, member_pubkey
DefaultKey == 0           \* Pubkey::default() of a zero-initialised account

\* ---------------------------------------------------------------- inputs
Titles == {"Fund audit"}
Descriptions == {"Pay for security audit"}
Amounts == {1000}
LegalNames == {"Jane Doe"}
Addresses == {"123 Main St"}
TaxIds == {"123-45-6789"}
VotingPowers == {100}
MemberTypeInputs == {"Human", "AI"}
Times == {1}              \* Clock::get()?.unix_timestamp

\* ---------------------------------------------------------------- types
ProposalStatus == {"Active", "Executed", "Rejected"}
MemberType == {"Human", "AI", "Organization"}

Ok == "Ok"
ErrorCode == {"ProposalNotActive", "AlreadyVoted"}
\* errors raised by the account validation that precedes a handler
AccountNotInitialized == "AccountNotInitialized"
AccountDiscriminatorMismatch == "AccountDiscriminatorMismatch"
AccountOwnedByWrongProgram == "AccountOwnedByWrongProgram"
AccountAlreadyInUse == "AccountAlreadyInUse"

GovernanceKinds == {"Dao", "Proposal", "VoteRecord"}
MembershipKinds == {"MemberRegistry", "Member"}
Kinds == GovernanceKinds \cup MembershipKinds

VARIABLES
  accounts,     \* [Kinds -> Seq(account)]: the ledger, per account type
  proposalDao,  \* per Proposal, the Dao account of the call that created it
  voteProposal, \* per VoteRecord, the Proposal account of the call that created it
  memberRegistry \* per Member, the MemberRegistry account of the call that created it

vars == <<accounts, proposalDao, voteProposal, memberRegistry>>

\* ------------------------------------------------- addresses
Unused == <<"None", 0>>

Exists(accts, a) == a[1] \in Kinds /\ a[2] \in 1..Len(accts[a[1]])

InUse(accts) == UNION {{<<k, i>> : i \in 1..Len(accts[k])} : k \in Kinds}

\* the addresses a client may put in a transaction
Addr(accts) == InUse(accts) \cup {Unused}

At(accts, a) == accts[a[1]][a[2]]

Put(accts, a, rec) == [accts EXCEPT ![a[1]][a[2]] = rec]

\* a new account of type `kind` takes the next rank of its type
Create(accts, kind, rec) == [accts EXCEPT ![kind] = Append(@, rec)]

TotalAccounts(accts) ==
  Len(accts["Dao"]) + Len(accts["Proposal"]) + Len(accts["VoteRecord"])
    + Len(accts["MemberRegistry"]) + Len(accts["Member"])

\* ------------------------------------------------- account validation
\* Account<'info, T> with T of program `kinds`: owner, then discriminator.
AccountCheck(accts, a, kind, kinds) ==
  IF ~Exists(accts, a) THEN AccountNotInitialized
  ELSE IF a[1] \notin kinds THEN AccountOwnedByWrongProgram
  ELSE IF a[1] # kind THEN AccountDiscriminatorMismatch
  ELSE Ok

\* #[account(init, ...)]: the system program creates the account at the
\* address the client supplies; it refuses an address that is in use.
InitCheck(accts, a) ==
  IF Exists(accts, a) THEN AccountAlreadyInUse ELSE Ok

\* The #[derive(Accounts)] structs: the first constraint that fails, in
\* declaration order, or Ok.
InitializeAccounts(accts, dao) ==
  InitCheck(accts, dao)

CreateProposalAccounts(accts, dao, proposal) ==
  IF AccountCheck(accts, dao, "Dao", GovernanceKinds) # Ok
    THEN AccountCheck(accts, dao, "Dao", GovernanceKinds)
    ELSE InitCheck(accts, proposal)

VoteAccounts(accts, proposal, vote_record) ==
  IF AccountCheck(accts, proposal, "Proposal", GovernanceKinds) # Ok
    THEN AccountCheck(accts, proposal, "Proposal", GovernanceKinds)
    ELSE InitCheck(accts, vote_record)

RegistryInitializeAccounts(accts, registry) ==
  InitCheck(accts, registry)

AddMemberAccounts(accts, registry, member) ==
  IF AccountCheck(accts, registry, "MemberRegistry", MembershipKinds) # Ok
    THEN AccountCheck(accts, registry, "MemberRegistry", MembershipKinds)
    ELSE InitCheck(accts, member)

\* the zero-initialised VoteRecord an `init` hands to the handler
FreshVoteRecord ==
  [has_voted |-> FALSE, support |-> FALSE, voter |-> DefaultKey]

\* ------------------------------------------------- governance handlers
\* initialize that counts the founding authority as a member
InitializeDaoCountsFounder(authority, legal_name, registered_agent_address, principal_place_of_business, now) ==
  [authority |-> authority,
   proposal_count |-> 0,
   member_count |-> 1,
   legal_name |-> legal_name,
   registered_agent_address |-> registered_agent_address,
   principal_place_of_business |-> principal_place_of_business,
   formation_date |-> now,
   jurisdiction |-> "Wyoming",
   entity_type |-> "DAO LLC"]

\* initialize: the new Dao record
InitializeDao(authority, legal_name, registered_agent_address, principal_place_of_business, now) ==
  [authority |-> authority,
   proposal_count |-> 0,
   member_count |-> 0,
   legal_name |-> legal_name,
   registered_agent_address |-> registered_agent_address,
   principal_place_of_business |-> principal_place_of_business,
   formation_date |-> now,
   jurisdiction |-> "Wyoming",
   entity_type |-> "DAO LLC"]

\* create_proposal with the id taken after the increment
NewProposalOneBased(dao, title, description, amount, proposer, now) ==
  [id |-> dao.proposal_count + 1,
   title |-> title,
   description |-> description,
   amount |-> amount,
   proposer |-> proposer,
   votes_for |-> 0,
   votes_against |-> 0,
   status |-> "Active",
   created_at |-> now]

\* create_proposal: the new Proposal record
NewProposal(dao, title, description, amount, proposer, now) ==
  [id |-> dao.proposal_count,
   title |-> title,
   description |-> description,
   amount |-> amount,
   proposer |-> proposer,
   votes_for |-> 0,
   votes_against |-> 0,
   status |-> "Active",
   created_at |-> now]

\* create_proposal: the Dao record after the call
BumpProposalCount(dao) ==
  [dao EXCEPT !.proposal_count = @ + 1]

\* vote with both tallies raised whatever `support` is
VoteHandlerBothTallies(proposal, vote_record, voter, support) ==
  IF proposal.status # "Active"
    THEN [err |-> "ProposalNotActive", proposal |-> proposal, vote_record |-> vote_record]
  ELSE IF vote_record.has_voted
    THEN [err |-> "AlreadyVoted", proposal |-> proposal, vote_record |-> vote_record]
  ELSE [err |-> Ok,
        proposal |-> [proposal EXCEPT !.votes_for = @ + 1, !.votes_against = @ + 1],
        vote_record |-> [vote_record EXCEPT !.has_voted = TRUE,
                                            !.support = support,
                                            !.voter = voter]]

\* vote with the tally assigned instead of incremented
VoteHandlerOverwrite(proposal, vote_record, voter, support) ==
  IF proposal.status # "Active"
    THEN [err |-> "ProposalNotActive", proposal |-> proposal, vote_record |-> vote_record]
  ELSE IF vote_record.has_voted
    THEN [err |-> "AlreadyVoted", proposal |-> proposal, vote_record |-> vote_record]
  ELSE [err |-> Ok,
        proposal |-> IF support
                       THEN [proposal EXCEPT !.votes_for = 1]
                       ELSE [proposal EXCEPT !.votes_against = 1],
        vote_record |-> [vote_record EXCEPT !.has_voted = TRUE,
                                            !.support = support,
                                            !.voter = voter]]

\* vote that closes the proposal once two votes for it are in
VoteHandlerAutoExecute(proposal, vote_record, voter, support) ==
  IF proposal.status # "Active"
    THEN [err |-> "ProposalNotActive", proposal |-> proposal, vote_record |-> vote_record]
  ELSE IF vote_record.has_voted
    THEN [err |-> "AlreadyVoted", proposal |-> proposal, vote_record |-> vote_record]
  ELSE [err |-> Ok,
        proposal |-> IF support
                       THEN [proposal EXCEPT !.votes_for = @ + 1,
                                             !.status = IF proposal.votes_for >= 1
                                                          THEN "Executed" ELSE @]
                       ELSE [proposal EXCEPT !.votes_against = @ + 1],
        vote_record |-> [vote_record EXCEPT !.has_voted = TRUE,
                                            !.support = support,
                                            !.voter = voter]]

\* vote with the two tallies taken for each other
VoteHandlerSwapped(proposal, vote_record, voter, support) ==
  IF proposal.status # "Active"
    THEN [err |-> "ProposalNotActive", proposal |-> proposal, vote_record |-> vote_record]
  ELSE IF vote_record.has_voted
    THEN [err |-> "AlreadyVoted", proposal |-> proposal, vote_record |-> vote_record]
  ELSE [err |-> Ok,
        proposal |-> IF support
                       THEN [proposal EXCEPT !.votes_against = @ + 1]
                       ELSE [proposal EXCEPT !.votes_for = @ + 1],
        vote_record |-> [vote_record EXCEPT !.has_voted = TRUE,
                                            !.support = support,
                                            !.voter = voter]]

\* vote that forgets to write the choice into the record
VoteHandlerKeepsSupport(proposal, vote_record, voter, support) ==
  IF proposal.status # "Active"
    THEN [err |-> "ProposalNotActive", proposal |-> proposal, vote_record |-> vote_record]
  ELSE IF vote_record.has_voted
    THEN [err |-> "AlreadyVoted", proposal |-> proposal, vote_record |-> vote_record]
  ELSE [err |-> Ok,
        proposal |-> IF support
                       THEN [proposal EXCEPT !.votes_for = @ + 1]
                       ELSE [proposal EXCEPT !.votes_against = @ + 1],
        vote_record |-> [vote_record EXCEPT !.has_voted = TRUE,
                                            !.voter = voter]]

\* vote: the handler body on the two accounts it is given
VoteHandler(proposal, vote_record, voter, support) ==
  IF proposal.status # "Active"
    THEN [err |-> "ProposalNotActive", proposal |-> proposal, vote_record |-> vote_record]
  ELSE IF vote_record.has_voted
    THEN [err |-> "AlreadyVoted", proposal |-> proposal, vote_record |-> vote_record]
  ELSE [err |-> Ok,
        proposal |-> IF support
                       THEN [proposal EXCEPT !.votes_for = @ + 1]
                       ELSE [proposal EXCEPT !.votes_against = @ + 1],
        vote_record |-> [vote_record EXCEPT !.has_voted = TRUE,
                                            !.support = support,
                                            !.voter = voter]]

\* ------------------------------------------------- governance transactions
\* each yields [err, accounts]: the result and the ledger after the transaction

\* initialize with init_if_needed in place of init: an existing Dao is set up again
InitializeTxIfNeeded(accts, dao, authority, legal_name, agent, place, now) ==
  IF Exists(accts, dao) /\ dao[1] = "Dao"
    THEN [err |-> Ok,
          accounts |-> Put(accts, dao,
                           InitializeDao(authority, legal_name, agent, place, now))]
  ELSE IF InitCheck(accts, dao) # Ok
    THEN [err |-> InitCheck(accts, dao), accounts |-> accts]
  ELSE [err |-> Ok,
        accounts |-> Create(accts, "Dao",
                            InitializeDao(authority, legal_name, agent, place, now))]

InitializeTx(accts, dao, authority, legal_name, agent, place, now) ==
  IF InitializeAccounts(accts, dao) # Ok
    THEN [err |-> InitializeAccounts(accts, dao), accounts |-> accts]
  ELSE [err |-> Ok,
        accounts |-> Create(accts, "Dao",
                            InitializeDao(authority, legal_name, agent, place, now))]

\* create_proposal open to the Dao's authority only
CreateProposalTxAuthorityOnly(accts, dao, proposal, proposer, title, description, amount, now) ==
  IF CreateProposalAccounts(accts, dao, proposal) # Ok
    THEN [err |-> CreateProposalAccounts(accts, dao, proposal), accounts |-> accts]
  ELSE IF proposer # At(accts, dao).authority
    THEN [err |-> "ConstraintHasOne", accounts |-> accts]
  ELSE [err |-> Ok,
        accounts |-> Put(Create(accts, "Proposal",
                                NewProposal(At(accts, dao), title, description,
                                            amount, proposer, now)),
                         dao, BumpProposalCount(At(accts, dao)))]

CreateProposalTx(accts, dao, proposal, proposer, title, description, amount, now) ==
  IF CreateProposalAccounts(accts, dao, proposal) # Ok
    THEN [err |-> CreateProposalAccounts(accts, dao, proposal), accounts |-> accts]
  ELSE [err |-> Ok,
        accounts |-> Put(Create(accts, "Proposal",
                                NewProposal(At(accts, dao), title, description,
                                            amount, proposer, now)),
                         dao, BumpProposalCount(At(accts, dao)))]

\* vote open to identities with a Member record only
VoteTxMembersOnly(accts, proposal, vote_record, voter, support) ==
  IF VoteAccounts(accts, proposal, vote_record) # Ok
    THEN [err |-> VoteAccounts(accts, proposal, vote_record), accounts |-> accts]
  ELSE IF \A i \in 1..Len(accts["Member"]) : accts["Member"][i].pubkey # voter
    THEN [err |-> "NotAMember", accounts |-> accts]
  ELSE LET r == VoteHandler(At(accts, proposal), FreshVoteRecord, voter, support)
       IN IF r.err # Ok
            THEN [err |-> r.err, accounts |-> accts]
            ELSE [err |-> Ok,
                  accounts |-> Put(Create(accts, "VoteRecord", r.vote_record),
                                   proposal, r.proposal)]

VoteTx(accts, proposal, vote_record, voter, support) ==
  IF VoteAccounts(accts, proposal, vote_record) # Ok
    THEN [err |-> VoteAccounts(accts, proposal, vote_record), accounts |-> accts]
  ELSE LET r == VoteHandler(At(accts, proposal), FreshVoteRecord, voter, support)
       IN IF r.err # Ok
            THEN [err |-> r.err, accounts |-> accts]
            ELSE [err |-> Ok,
                  accounts |-> Put(Create(accts, "VoteRecord", r.vote_record),
                                   proposal, r.proposal)]

\* ------------------------------------------------- membership handlers
\* initialize: the new MemberRegistry record
InitializeRegistry(authority) ==
  [authority |-> authority,
   member_count |-> 0]

\* add_member with the member taken as verified at creation
NewMemberVerified(member_pubkey, member_type, voting_power, legal_name, address, tax_id, now) ==
  [pubkey |-> member_pubkey,
   member_type |-> member_type,
   voting_power |-> voting_power,
   joined_at |-> now,
   is_active |-> TRUE,
   legal_name |-> legal_name,
   address |-> address,
   tax_id |-> tax_id,
   kyc_verified |-> TRUE]

\* add_member: the new Member record
NewMember(member_pubkey, member_type, voting_power, legal_name, address, tax_id, now) ==
  [pubkey |-> member_pubkey,
   member_type |-> member_type,
   voting_power |-> voting_power,
   joined_at |-> now,
   is_active |-> TRUE,
   legal_name |-> legal_name,
   address |-> address,
   tax_id |-> tax_id,
   kyc_verified |-> FALSE]

\* add_member with the count assigned instead of incremented
BumpMemberCountAssign(registry) ==
  [registry EXCEPT !.member_count = 1]

\* add_member: the MemberRegistry record after the call
BumpMemberCount(registry) ==
  [registry EXCEPT !.member_count = @ + 1]

\* ------------------------------------------------- membership transactions

\* initialize with init_if_needed in place of init: an existing registry is set up again
InitializeRegistryTxIfNeeded(accts, registry, authority) ==
  IF Exists(accts, registry) /\ registry[1] = "MemberRegistry"
    THEN [err |-> Ok, accounts |-> Put(accts, registry, InitializeRegistry(authority))]
  ELSE IF InitCheck(accts, registry) # Ok
    THEN [err |-> InitCheck(accts, registry), accounts |-> accts]
  ELSE [err |-> Ok,
        accounts |-> Create(accts, "MemberRegistry", InitializeRegistry(authority))]

InitializeRegistryTx(accts, registry, authority) ==
  IF RegistryInitializeAccounts(accts, registry) # Ok
    THEN [err |-> RegistryInitializeAccounts(accts, registry), accounts |-> accts]
  ELSE [err |-> Ok,
        accounts |-> Create(accts, "MemberRegistry", InitializeRegistry(authority))]

\* add_member that refuses an identity a Member record already names
AddMemberTxNoDuplicates(accts, registry, member, member_pubkey, authority, member_type, voting_power, legal_name, address, tax_id, now) ==
  IF AddMemberAccounts(accts, registry, member) # Ok
    THEN [err |-> AddMemberAccounts(accts, registry, member), accounts |-> accts]
  ELSE IF \E i \in 1..Len(accts["Member"]) : accts["Member"][i].pubkey = member_pubkey
    THEN [err |-> "AlreadyMember", accounts |-> accts]
  ELSE [err |-> Ok,
        accounts |-> Put(Create(accts, "Member",
                                NewMember(member_pubkey, member_type, voting_power,
                                          legal_name, address, tax_id, now)),
                         registry, BumpMemberCount(At(accts, registry)))]

AddMemberTx(accts, registry, member, member_pubkey, authority, member_type, voting_power, legal_name, address, tax_id, now) ==
  IF AddMemberAccounts(accts, registry, member) # Ok
    THEN [err |-> AddMemberAccounts(accts, registry, member), accounts |-> accts]
  ELSE [err |-> Ok,
        accounts |-> Put(Create(accts, "Member",
                                NewMember(member_pubkey, member_type, voting_power,
                                          legal_name, address, tax_id, now)),
                         registry, BumpMemberCount(At(accts, registry)))]

\* ------------------------------------------------- state machine
Init ==
  /\ accounts = [k \in Kinds |-> <<>>]
  /\ proposalDao = <<>>
  /\ voteProposal = <<>>
  /\ memberRegistry = <<>>

\* the ledger holds at most NumAddr accounts: a transaction that would
\* create one more is not submitted
Room(target) == target = Unused => TotalAccounts(accounts) < NumAddr

Initialize(dao, authority, legal_name, agent, place, now) ==
  LET r == InitializeTx(accounts, dao, authority, legal_name, agent, place, now)
  IN /\ Room(dao)
     /\ accounts' = r.accounts
     /\ UNCHANGED <<proposalDao, voteProposal, memberRegistry>>

CreateProposal(dao, proposal, proposer, title, description, amount, now) ==
  LET r == CreateProposalTx(accounts, dao, proposal, proposer, title,
                            description, amount, now)
  IN /\ Room(proposal)
     /\ accounts' = r.accounts
     /\ proposalDao' = IF r.err = Ok THEN Append(proposalDao, dao) ELSE proposalDao
     /\ UNCHANGED <<voteProposal, memberRegistry>>

Vote(proposal, vote_record, voter, support) ==
  LET r == VoteTx(accounts, proposal, vote_record, voter, support)
  IN /\ Room(vote_record)
     /\ accounts' = r.accounts
     /\ voteProposal' = IF r.err = Ok THEN Append(voteProposal, proposal)
                                      ELSE voteProposal
     /\ UNCHANGED <<proposalDao, memberRegistry>>

RegistryInitialize(registry, authority) ==
  LET r == InitializeRegistryTx(accounts, registry, authority)
  IN /\ Room(registry)
     /\ accounts' = r.accounts
     /\ UNCHANGED <<proposalDao, voteProposal, memberRegistry>>

AddMember(registry, member, member_pubkey, authority, member_type, voting_power, legal_name, address, tax_id, now) ==
  LET r == AddMemberTx(accounts, registry, member, member_pubkey, authority,
                       member_type, voting_power, legal_name, address, tax_id, now)
  IN /\ Room(member)
     /\ accounts' = r.accounts
     /\ memberRegistry' = IF r.err = Ok THEN Append(memberRegistry, registry)
                                        ELSE memberRegistry
     /\ UNCHANGED <<proposalDao, voteProposal>>

\* A transaction that account validation rejects never has its instruction
\* data read and changes nothing: one value of each remaining input then
\* stands for all of them.
Data(err, values) == IF err = Ok THEN values ELSE {CHOOSE v \in values : TRUE}

Next ==
  \/ \E dao \in Addr(accounts) :
       \E authority \in Data(InitializeAccounts(accounts, dao), Keys),
          n \in LegalNames, ra \in Addresses, pp \in Addresses, now \in Times :
         Initialize(dao, authority, n, ra, pp, now)
  \/ \E dao \in Addr(accounts), proposal \in Addr(accounts) :
       \E proposer \in Data(CreateProposalAccounts(accounts, dao, proposal), Keys),
          t \in Titles, d \in Descriptions, amt \in Amounts, now \in Times :
         CreateProposal(dao, proposal, proposer, t, d, amt, now)
  \/ \E proposal \in Addr(accounts), vote_record \in Addr(accounts) :
       \E voter \in Data(VoteAccounts(accounts, proposal, vote_record), Keys),
          support \in Data(VoteAccounts(accounts, proposal, vote_record), BOOLEAN) :
         Vote(proposal, vote_record, voter, support)
  \/ \E registry \in Addr(accounts) :
       \E authority \in Data(RegistryInitializeAccounts(accounts, registry), Keys) :
         RegistryInitialize(registry, authority)
  \/ \E registry \in Addr(accounts), member \in Addr(accounts) :
       \E member_pubkey \in Data(AddMemberAccounts(accounts, registry, member), Keys),
          authority \in Data(AddMemberAccounts(accounts, registry, member), Keys),
          member_type \in Data(AddMemberAccounts(accounts, registry, member),
                               MemberTypeInputs),
          vp \in VotingPowers, n \in LegalNames, ad \in Addresses, tx \in TaxIds,
          now \in Times :
         AddMember(registry, member, member_pubkey, authority, member_type, vp,
                   n, ad, tx, now)

Spec == Init /\ [][Next]_vars

\* ------------------------------------------------- derived notions
Daos == {<<"Dao", i>> : i \in 1..Len(accounts["Dao"])}
Proposals == {<<"Proposal", i>> : i \in 1..Len(accounts["Proposal"])}
Registries == {<<"MemberRegistry", i>> : i \in 1..Len(accounts["MemberRegistry"])}

\* the committed Vote Records created by vote calls on proposal p
RecordsOf(p) == {i \in DOMAIN voteProposal : voteProposal[i] = p}

\* the voters who have successfully voted on proposal p
VotersOf(p) == {accounts["VoteRecord"][i].voter : i \in RecordsOf(p)}

HasVotedOn(p, v) == p \in Proposals /\ v \in VotersOf(p)

Tally(accts, p) == At(accts, p).votes_for + At(accts, p).votes_against

\* the committed Member records created by add_member calls on registry g
MembersOf(g) == {i \in DOMAIN memberRegistry : memberRegistry[i] = g}

\* the logs run parallel to the account tables they describe
LogsInStep ==
  /\ Len(proposalDao) = Len(accounts["Proposal"])
  /\ Len(voteProposal) = Len(accounts["VoteRecord"])
  /\ Len(memberRegistry) = Len(accounts["Member"])

\* ------------------------------------------------- claims

\* C1: once voter V has successfully voted on proposal P, every later vote
\* call by V on P fails with AlreadyVoted, whatever support is passed, and
\* leaves P.votes_for and P.votes_against unchanged.
C1_SecondVoteFailsAlreadyVoted ==
  [][\A p \in Addr(accounts), a \in Addr(accounts), v \in Keys, s \in BOOLEAN :
       (HasVotedOn(p, v) /\ Vote(p, a, v, s))
         => /\ VoteTx(accounts, p, a, v, s).err = "AlreadyVoted"
            /\ At(accounts', p).votes_for = At(accounts, p).votes_for
            /\ At(accounts', p).votes_against = At(accounts, p).votes_against]_vars

\* C2: in every reachable state at most one Vote Record exists for any
\* (proposal, voter) pair.
C2_OneRecordPerProposalVoter ==
  \A i \in DOMAIN voteProposal, j \in DOMAIN voteProposal :
    (/\ voteProposal[i] = voteProposal[j]
     /\ accounts["VoteRecord"][i].voter = accounts["VoteRecord"][j].voter)
      => i = j

\* C3: for every proposal P, votes_for + votes_against equals the number of
\* distinct voters who have successfully voted on P.
C3_TallyEqualsDistinctVoters ==
  \A p \in Proposals : Tally(accounts, p) = Cardinality(VotersOf(p))

\* C4: for every proposal P, in every reachable state, votes_for +
\* votes_against equals the number of committed Vote Records created by vote
\* calls on P; every vote call that succeeds creates exactly one Vote Record
\* and raises the tally of its proposal by exactly one, and every vote call
\* that fails changes nothing.
C4_TallyEqualsRecords ==
  /\ LogsInStep
  /\ \A p \in Proposals : Tally(accounts, p) = Cardinality(RecordsOf(p))
  /\ \A p \in Addr(accounts), a \in Addr(accounts) :
      \A v \in Data(VoteAccounts(accounts, p, a), Keys),
         s \in Data(VoteAccounts(accounts, p, a), BOOLEAN) :
       LET r == VoteTx(accounts, p, a, v, s)
       IN IF r.err = Ok
            THEN /\ Len(r.accounts["VoteRecord"]) = Len(accounts["VoteRecord"]) + 1
                 /\ Tally(r.accounts, p) = Tally(accounts, p) + 1
                 /\ \A q \in Proposals \ {p} : Tally(r.accounts, q) = Tally(accounts, q)
            ELSE r.accounts = accounts

\* C4 witness: a proposal whose tally of 2 stands for two committed records
C4_Witness ==
  \E p \in Proposals :
    /\ Cardinality(RecordsOf(p)) = 2
    /\ Tally(accounts, p) = 2
    /\ \E a \in InUse(accounts), v \in Keys :
         VoteTx(accounts, p, a, v, TRUE).err = AccountAlreadyInUse

\* C6: the k-th proposal successfully created under a Dao (k from 0) has
\* id k, whatever other operations are interleaved: the id of every proposal
\* is the number of proposals created under the same Dao before it, so the
\* ids of one Dao are 0, 1, 2, ... in call order, without gap or repeat.
C6_IdsSequential ==
  /\ LogsInStep
  /\ \A i \in DOMAIN proposalDao :
       accounts["Proposal"][i].id =
         Cardinality({j \in 1..(i - 1) : proposalDao[j] = proposalDao[i]})

\* C6 witness: two proposals of one Dao, with ids 0 and 1, and a vote cast
C6_Witness ==
  \E i \in DOMAIN proposalDao, j \in DOMAIN proposalDao :
    /\ i < j
    /\ proposalDao[i] = proposalDao[j]
    /\ accounts["Proposal"][i].id = 0
    /\ accounts["Proposal"][j].id = 1
    /\ voteProposal # <<>>

\* the proposals successfully created under Dao d
CreatedUnder(d) == {i \in DOMAIN proposalDao : proposalDao[i] = d}

\* C7: dao.proposal_count equals the number of proposals successfully
\* created under that Dao; it is 0 in a new Dao, a step changes it only by
\* raising it by exactly 1, and only a successful create_proposal on that Dao
\* does; initialize on an existing Dao fails and changes nothing.
C7_ProposalCountTracksCreations ==
  /\ [](\A d \in Daos : At(accounts, d).proposal_count = Cardinality(CreatedUnder(d)))
  /\ [](\A d \in Daos, k \in Keys, n \in LegalNames, ra \in Addresses,
           pp \in Addresses, now \in Times :
          /\ InitializeTx(accounts, d, k, n, ra, pp, now).err = AccountAlreadyInUse
          /\ InitializeTx(accounts, d, k, n, ra, pp, now).accounts = accounts)
  /\ [][/\ \A d \in Daos :
            \/ At(accounts', d).proposal_count = At(accounts, d).proposal_count
            \/ /\ At(accounts', d).proposal_count = At(accounts, d).proposal_count + 1
               /\ \E k \in Keys, t \in Titles, ds \in Descriptions, amt \in Amounts,
                     now \in Times :
                    CreateProposal(d, Unused, k, t, ds, amt, now)
        /\ \A i \in 1..Len(accounts'["Dao"]) :
             i > Len(accounts["Dao"]) => accounts'["Dao"][i].proposal_count = 0]_vars

\* C7 witness: a Dao that has counted two proposals beside a Dao that has none
C7_Witness ==
  \E d \in Daos, e \in Daos :
    /\ At(accounts, d).proposal_count = 2
    /\ Cardinality(CreatedUnder(d)) = 2
    /\ At(accounts, e).proposal_count = 0

\* C8: every add_member call that succeeds raises the member_count of its
\* registry by exactly 1 and commits exactly one Member record; every
\* add_member call that fails leaves member_count unchanged and commits no
\* Member record.
C8_AddMemberCounts ==
  \A g \in Addr(accounts), m \in Addr(accounts) :
   \A k \in Data(AddMemberAccounts(accounts, g, m), Keys),
      au \in Data(AddMemberAccounts(accounts, g, m), Keys),
      t \in Data(AddMemberAccounts(accounts, g, m), MemberTypeInputs),
      vp \in VotingPowers, n \in LegalNames, ad \in Addresses, tx \in TaxIds,
      now \in Times :
    LET r == AddMemberTx(accounts, g, m, k, au, t, vp, n, ad, tx, now)
    IN IF r.err = Ok
         THEN /\ At(r.accounts, g).member_count = At(accounts, g).member_count + 1
              /\ Len(r.accounts["Member"]) = Len(accounts["Member"]) + 1
              /\ \A h \in Registries \ {g} : At(r.accounts, h) = At(accounts, h)
         ELSE /\ r.accounts["Member"] = accounts["Member"]
              /\ r.accounts["MemberRegistry"] = accounts["MemberRegistry"]

\* C8 witness: a registry that has counted a member, where an add_member call
\* succeeds and another, on the address of that member, fails
C8_Witness ==
  \E g \in Registries, i \in DOMAIN memberRegistry :
    /\ memberRegistry[i] = g
    /\ At(accounts, g).member_count = 1
    /\ \E k \in Keys, t \in MemberTypeInputs, vp \in VotingPowers, n \in LegalNames,
          ad \in Addresses, tx \in TaxIds, now \in Times :
         /\ AddMemberTx(accounts, g, <<"Member", i>>, k, k, t, vp, n, ad, tx, now).err
              = AccountAlreadyInUse
         /\ AddMemberTx(accounts, g, Unused, k, k, t, vp, n, ad, tx, now).err = Ok

\* C9: in every reachable state the member_count of a registry equals the
\* number of committed Member records created by add_member calls on it;
\* registry initialize on an existing registry fails and changes nothing.
C9_MemberCountEqualsMembers ==
  /\ Len(memberRegistry) = Len(accounts["Member"])
  /\ \A g \in Registries : At(accounts, g).member_count = Cardinality(MembersOf(g))
  /\ \A g \in Registries, k \in Keys :
       /\ InitializeRegistryTx(accounts, g, k).err = AccountAlreadyInUse
       /\ InitializeRegistryTx(accounts, g, k).accounts = accounts

\* C9 witness: a registry with two members beside a registry with none
C9_Witness ==
  \E g \in Registries, h \in Registries :
    /\ At(accounts, g).member_count = 2
    /\ Cardinality(MembersOf(g)) = 2
    /\ At(accounts, h).member_count = 0

\* C10: two vote calls by different voters on the same Active proposal, each
\* creating its vote_record at an address not in use, both succeed whichever
\* is applied first; each commits its own Vote Record and the tallies hold
\* both increments (votes_for + votes_against is 2 higher than before, and
\* the same tallies result in either order).
C10_ConcurrentVotesBothCount ==
  \A p \in Proposals, v1 \in Keys, v2 \in Keys, s1 \in BOOLEAN, s2 \in BOOLEAN :
    (v1 # v2 /\ At(accounts, p).status = "Active") =>
      LET r1 == VoteTx(accounts, p, Unused, v1, s1)
          r12 == VoteTx(r1.accounts, p, Unused, v2, s2)
          r2 == VoteTx(accounts, p, Unused, v2, s2)
          r21 == VoteTx(r2.accounts, p, Unused, v1, s1)
          n == Len(accounts["VoteRecord"])
      IN /\ r1.err = Ok /\ r12.err = Ok /\ r2.err = Ok /\ r21.err = Ok
         /\ Tally(r12.accounts, p) = Tally(accounts, p) + 2
         /\ Tally(r21.accounts, p) = Tally(accounts, p) + 2
         /\ At(r12.accounts, p) = At(r21.accounts, p)
         /\ Len(r12.accounts["VoteRecord"]) = n + 2
         /\ Len(r21.accounts["VoteRecord"]) = n + 2
         /\ {r12.accounts["VoteRecord"][i].voter : i \in {n + 1, n + 2}} = {v1, v2}
         /\ {r21.accounts["VoteRecord"][i].voter : i \in {n + 1, n + 2}} = {v1, v2}

\* C10 witness: two voters have voted one after the other on one proposal,
\* one for and one against, and both votes are in its tallies
C10_Witness ==
  \E i \in DOMAIN voteProposal :
    /\ i + 1 \in DOMAIN voteProposal
    /\ voteProposal[i] = voteProposal[i + 1]
    /\ accounts["VoteRecord"][i].voter # accounts["VoteRecord"][i + 1].voter
    /\ accounts["VoteRecord"][i].support # accounts["VoteRecord"][i + 1].support
    /\ At(accounts, voteProposal[i]).votes_for = 1
    /\ At(accounts, voteProposal[i]).votes_against = 1

\* C12: in every reachable state every existing proposal has status Active,
\* whatever its tallies are: no operation sets Executed or Rejected.
C12_StatusAlwaysActive ==
  \A p \in Proposals : At(accounts, p).status = "Active"

\* C12 witness: a proposal that two votes have been counted on, still Active
C12_Witness ==
  \E p \in Proposals :
    /\ Tally(accounts, p) = 2
    /\ At(accounts, p).status = "Active"

\* C13: a successful vote(support) on proposal P raises votes_for by exactly
\* 1 if support is true and votes_against by exactly 1 if it is false, and
\* leaves unchanged the other tally and every other field of P (id, status,
\* amount, proposer), every other proposal and every Dao (proposal_count);
\* no step of any operation changes the id of an existing proposal.
C13_VoteFrame ==
  /\ [](\A p \in Proposals, v \in Keys, s \in BOOLEAN :
          LET r == VoteTx(accounts, p, Unused, v, s)
              old == At(accounts, p)
          IN r.err = Ok =>
               /\ At(r.accounts, p) =
                    IF s THEN [old EXCEPT !.votes_for = old.votes_for + 1]
                         ELSE [old EXCEPT !.votes_against = old.votes_against + 1]
               /\ \A q \in Proposals \ {p} : At(r.accounts, q) = At(accounts, q)
               /\ r.accounts["Dao"] = accounts["Dao"])
  /\ [][\A i \in 1..Len(accounts["Proposal"]) :
          accounts'["Proposal"][i].id = accounts["Proposal"][i].id]_vars

\* C13 witness: a vote for has been counted on the first of two proposals of
\* a Dao and the second is untouched
C13_Witness ==
  \E p \in Proposals, q \in Proposals, d \in Daos :
    /\ At(accounts, p).id = 0 /\ At(accounts, q).id = 1
    /\ At(accounts, p).votes_for = 1 /\ At(accounts, p).votes_against = 0
    /\ Tally(accounts, q) = 0
    /\ At(accounts, d).proposal_count = 2

\* C14: in every reachable state every committed Member record has
\* is_active = true and kyc_verified = false, and no step of any operation
\* changes a Member record once it is committed.
C14_MemberFlagsFixed ==
  /\ [](\A i \in 1..Len(accounts["Member"]) :
          /\ accounts["Member"][i].is_active = TRUE
          /\ accounts["Member"][i].kyc_verified = FALSE)
  /\ [][\A i \in 1..Len(accounts["Member"]) :
          accounts'["Member"][i] = accounts["Member"][i]]_vars

\* C14 witness: two Member records committed
C14_Witness ==
  /\ Len(accounts["Member"]) = 2
  /\ \A i \in 1..Len(accounts["Member"]) :
       accounts["Member"][i].is_active /\ ~accounts["Member"][i].kyc_verified

\* C15: create_proposal and add_member check no authority: create_proposal
\* on a Dao succeeds for every caller, also one that is not dao.authority,
\* and add_member on a registry succeeds for every signer, also one that is
\* not registry.authority; neither changes the stored authority.
C15_NoAuthorityCheck ==
  /\ \A d \in Daos, k \in Keys, t \in Titles, ds \in Descriptions, amt \in Amounts,
        now \in Times :
       LET r == CreateProposalTx(accounts, d, Unused, k, t, ds, amt, now)
       IN /\ r.err = Ok
          /\ r.accounts["Proposal"][Len(accounts["Proposal"]) + 1].proposer = k
          /\ At(r.accounts, d).authority = At(accounts, d).authority
  /\ \A g \in Registries, k \in Keys, au \in Keys, t \in MemberTypeInputs,
        vp \in VotingPowers, n \in LegalNames, ad \in Addresses, tx \in TaxIds,
        now \in Times :
       LET r == AddMemberTx(accounts, g, Unused, k, au, t, vp, n, ad, tx, now)
       IN /\ r.err = Ok
          /\ At(r.accounts, g).authority = At(accounts, g).authority

\* C15 witness: a proposal whose proposer is not the authority of its Dao,
\* and a registry holding a member where a signer that is not its authority
\* can add another
C15_Witness ==
  /\ \E i \in DOMAIN proposalDao :
       accounts["Proposal"][i].proposer # At(accounts, proposalDao[i]).authority
  /\ \E g \in Registries, au \in Keys, k \in Keys, t \in MemberTypeInputs,
        vp \in VotingPowers, n \in LegalNames, ad \in Addresses, tx \in TaxIds,
        now \in Times :
       /\ MembersOf(g) # {}
       /\ au # At(accounts, g).authority
       /\ AddMemberTx(accounts, g, Unused, k, au, t, vp, n, ad, tx, now).err = Ok

\* C16: add_member makes no duplicate check: for an identity that already
\* has a Member record in the registry it succeeds, commits another Member
\* record with the same pubkey and raises member_count again.
C16_NoDuplicateMemberCheck ==
  \A g \in Registries :
    \A i \in MembersOf(g), au \in Keys, t \in MemberTypeInputs, vp \in VotingPowers,
       n \in LegalNames, ad \in Addresses, tx \in TaxIds, now \in Times :
      LET k == accounts["Member"][i].pubkey
          r == AddMemberTx(accounts, g, Unused, k, au, t, vp, n, ad, tx, now)
      IN /\ r.err = Ok
         /\ r.accounts["Member"][Len(accounts["Member"]) + 1].pubkey = k
         /\ At(r.accounts, g).member_count = At(accounts, g).member_count + 1

\* C16 witness: a registry whose member_count of 2 exceeds the one identity
\* its two Member records name
C16_Witness ==
  \E g \in Registries :
    /\ At(accounts, g).member_count = 2
    /\ Cardinality(MembersOf(g)) = 2
    /\ Cardinality({accounts["Member"][i].pubkey : i \in MembersOf(g)}) = 1

\* C17: no vote call returns AlreadyVoted, because the handler always gets a
\* vote_record created in the same transaction with has_voted = false; a
\* vote call that succeeds commits the record (has_voted = true, voter = the
\* signing voter, support = the submitted choice), and every committed Vote
\* Record has has_voted = true.
C17_AlreadyVotedNeverReturned ==
  /\ \A i \in 1..Len(accounts["VoteRecord"]) : accounts["VoteRecord"][i].has_voted
  /\ \A p \in Addr(accounts), a \in Addr(accounts) :
      \A v \in Data(VoteAccounts(accounts, p, a), Keys),
         s \in Data(VoteAccounts(accounts, p, a), BOOLEAN) :
       LET r == VoteTx(accounts, p, a, v, s)
       IN /\ r.err # "AlreadyVoted"
          /\ r.err = Ok =>
               r.accounts["VoteRecord"][Len(accounts["VoteRecord"]) + 1]
                 = [has_voted |-> TRUE, support |-> s, voter |-> v]

\* C17 witness: the handler has run twice for one voter on one proposal, with
\* different choices, and committed a record each time; a third call on the
\* address of the first record is refused when the account is created
C17_Witness ==
  \E i \in DOMAIN voteProposal, j \in DOMAIN voteProposal :
    /\ i < j
    /\ voteProposal[i] = voteProposal[j]
    /\ accounts["VoteRecord"][i].voter = accounts["VoteRecord"][j].voter
    /\ accounts["VoteRecord"][i].has_voted /\ accounts["VoteRecord"][j].has_voted
    /\ accounts["VoteRecord"][i].support # accounts["VoteRecord"][j].support
    /\ VoteTx(accounts, voteProposal[i], <<"VoteRecord", i>>,
              accounts["VoteRecord"][i].voter, FALSE).err = AccountAlreadyInUse

\* the identities that have a committed Member record
MemberKeys == {accounts["Member"][i].pubkey : i \in 1..Len(accounts["Member"])}

\* C18: voting is not gated by membership: a vote call on an Active proposal
\* by a voter without a prior vote on it succeeds whether or not a Member
\* record exists for the voter and whatever that record holds, and raises
\* the tally by exactly 1, never by voting_power.
C18_VoteNotGatedByMembership ==
  \A p \in Proposals, v \in Keys, s \in BOOLEAN :
    (At(accounts, p).status = "Active" /\ ~HasVotedOn(p, v)) =>
      LET r == VoteTx(accounts, p, Unused, v, s)
      IN /\ r.err = Ok
         /\ Tally(r.accounts, p) = Tally(accounts, p) + 1
         /\ r.accounts["Member"] = accounts["Member"]

\* C18 witness: one identity has a Member record and another has none, and
\* a vote call of either on a proposal succeeds
C18_Witness ==
  \E p \in Proposals, v \in Keys, w \in Keys :
    /\ v \in MemberKeys
    /\ w \notin MemberKeys
    /\ ~HasVotedOn(p, v) /\ ~HasVotedOn(p, w)
    /\ VoteTx(accounts, p, Unused, v, TRUE).err = Ok
    /\ VoteTx(accounts, p, Unused, w, TRUE).err = Ok

\* C19: in every reachable state dao.member_count is 0 for every Dao:
\* initialize sets it and nothing writes it; add_member raises the
\* member_count of its MemberRegistry only.
C19_DaoMemberCountZero ==
  /\ \A d \in Daos : At(accounts, d).member_count = 0
  /\ \A g \in Registries, k \in Keys, t \in MemberTypeInputs, vp \in VotingPowers,
        n \in LegalNames, ad \in Addresses, tx \in TaxIds, now \in Times :
       AddMemberTx(accounts, g, Unused, k, k, t, vp, n, ad, tx, now).accounts["Dao"]
         = accounts["Dao"]

\* C19 witness: a registry has counted a member and a Dao is still at 0
C19_Witness ==
  \E d \in Daos, g \in Registries :
    /\ At(accounts, g).member_count = 1
    /\ MembersOf(g) # {}
    /\ At(accounts, d).member_count = 0

====
